---- MODULE Spec2Model ----
(***************************************************************************)
(* Model of e13q/seller-apis: seller.py (Marketplace A, Ozon) and          *)
(* market.py (Marketplace B, Yandex Market).                               *)
(*                                                                         *)
(* Text cells of the remnants feed (quantity, price) are sequences of      *)
(* one-character strings, so that parsing and normalisation are computed   *)
(* character by character.  Offer ids / codes are atomic strings.          *)
(***************************************************************************)
EXTENDS Integers, Sequences, FiniteSets, TLC

VARIABLES
    market,          \* "A": seller.py runs, "B": market.py runs
    pc,              \* position of the running function
    campaign,        \* "OZON" for A; "FBS" / "DBS" for B
    clock,           \* datetime.utcnow() truncated to seconds
    server,          \* the marketplace: [mode, page_size, catalog]
    feed,            \* rows of the remote ostatki.xls
    watch_remnants,  \* rows as returned by download_stock()
    page,            \* last_id / page token sent with the next list request
    product_list,    \* get_offer_ids: items accumulated so far
    some_prod,       \* get_offer_ids: the last response
    offer_ids,       \* the offer-id list (mutated in place by create_stocks)
    stocks,          \* value of the last create_stocks call
    prices,          \* value of the last create_prices call
    chunks,          \* list(divide(...)) still to be sent
    net,             \* every network call made so far, in issue order
    coroutines,      \* coroutine objects created and never awaited
    results,         \* values returned by the calls made so far (reconciler runs)
    arg_lst,         \* divide: the list argument
    arg_n            \* divide: the chunk length argument

vars == << market, pc, campaign, clock, server, feed, watch_remnants, page,
           product_list, some_prod, offer_ids, stocks, prices, chunks, net,
           coroutines, results, arg_lst, arg_n >>

(***************************************************************************)
(* Bounds of the model.                                                    *)
(***************************************************************************)
MaxRows == 2
MaxOffers == 2
MaxClock == 1

(***************************************************************************)
(* Generic helpers.                                                        *)
(***************************************************************************)
SeqsUpTo(S, n) == UNION { [1..k -> S] : k \in 0..n }

Contains(lst, x) == \E i \in 1..Len(lst) : lst[i] = x

IndexOf(lst, x) == CHOOSE i \in 1..Len(lst) : lst[i] = x /\ \A j \in 1..(i-1) : lst[j] # x

ListRemoveNothing(lst, x) == lst

\* list.remove(x): drops the first occurrence only.
ListRemove(lst, x) ==
    LET i == IndexOf(lst, x)
    IN  SubSeq(lst, 1, i - 1) \o SubSeq(lst, i + 1, Len(lst))

Count(lst, x) == Cardinality({ i \in 1..Len(lst) : lst[i] = x })

DigitChars == << "0", "1", "2", "3", "4", "5", "6", "7", "8", "9" >>

IsDigit(c) == \E i \in 1..10 : DigitChars[i] = c

DigitVal(c) == (CHOOSE i \in 1..10 : DigitChars[i] = c) - 1

RECURSIVE DigitsValue(_)
DigitsValue(t) ==
    IF Len(t) = 0 THEN 0
    ELSE 10 * DigitsValue(SubSeq(t, 1, Len(t) - 1)) + DigitVal(t[Len(t)])

AllDigits(t) == Len(t) > 0 /\ \A i \in 1..Len(t) : IsDigit(t[i])

\* Python int(text) on the characters of the model: an optional sign followed
\* by one or more decimal digits; anything else raises ValueError.
IntParses(t) ==
    IF Len(t) > 0 /\ t[1] \in {"-", "+"} THEN AllDigits(Tail(t)) ELSE AllDigits(t)

IntValue(t) ==
    IF t[1] = "-" THEN 0 - DigitsValue(Tail(t))
    ELSE IF t[1] = "+" THEN DigitsValue(Tail(t))
    ELSE DigitsValue(t)

(***************************************************************************)
(* seller.price_conversion: re.sub("[^0-9]", "", price.split(".")[0])      *)
(***************************************************************************)
BeforeFirstDot(price) ==
    IF Contains(price, ".") THEN SubSeq(price, 1, IndexOf(price, ".") - 1) ELSE price

price_conversion_uncut(price) == SelectSeq(price, IsDigit)

price_conversion(price) == SelectSeq(BeforeFirstDot(price), IsDigit)

(***************************************************************************)
(* Count bucketing of create_stocks (seller.py 169-175, market.py 149-155).*)
(* count == ">10" -> 100; count == "1" -> 0; else int(quantity).           *)
(***************************************************************************)
ManyInStock == 100

bucket_raises(count) ==
    count # << ">", "1", "0" >> /\ count # << "1" >> /\ ~IntParses(count)

bucket_without_unit(count) ==
    IF count = << ">", "1", "0" >> THEN ManyInStock ELSE IntValue(count)

bucket(count) ==
    IF count = << ">", "1", "0" >> THEN ManyInStock
    ELSE IF count = << "1" >> THEN 0
    ELSE IntValue(count)

(***************************************************************************)
(* seller.create_stocks.  The value is [raised, stocks, offer_ids]:        *)
(* whether int() raised ValueError (then nothing is returned), the list    *)
(* built, and the caller's offer_ids list as the call leaves it.           *)
(***************************************************************************)
seller_stock_record(offer_id, stock) == [offer_id |-> offer_id, stock |-> stock]

RECURSIVE seller_match_loop(_, _, _, _)
seller_match_loop(rows, i, acc, ids) ==
    IF i > Len(rows) THEN [raised |-> FALSE, stocks |-> acc, offer_ids |-> ids]
    ELSE LET watch == rows[i] IN
         IF Contains(ids, watch.code)
         THEN IF bucket_raises(watch.qty)
              THEN [raised |-> TRUE, stocks |-> acc, offer_ids |-> ids]
              ELSE seller_match_loop(rows, i + 1,
                       Append(acc, seller_stock_record(watch.code, bucket(watch.qty))),
                       ListRemove(ids, watch.code))
         ELSE seller_match_loop(rows, i + 1, acc, ids)

seller_zero_fill(acc, ids) ==
    acc \o [k \in 1..Len(ids) |-> seller_stock_record(ids[k], 0)]

seller_create_stocks(rows, ids) ==
    LET m == seller_match_loop(rows, 1, << >>, ids)
    IN  IF m.raised THEN [raised |-> TRUE, stocks |-> << >>, offer_ids |-> m.offer_ids]
        ELSE [raised |-> FALSE,
              stocks |-> seller_zero_fill(m.stocks, m.offer_ids),
              offer_ids |-> m.offer_ids]

(***************************************************************************)
(* market.create_stocks: same loop, records carry the warehouse and the    *)
(* timestamp read once at the start of the call.                           *)
(***************************************************************************)
market_stock_record(sku, warehouse_id, stock, date) ==
    [sku |-> sku, warehouseId |-> warehouse_id,
     items |-> << [count |-> stock, type |-> "FIT", updatedAt |-> date] >>]

RECURSIVE market_match_loop(_, _, _, _, _, _)
market_match_loop(rows, i, acc, ids, warehouse_id, date) ==
    IF i > Len(rows) THEN [raised |-> FALSE, stocks |-> acc, offer_ids |-> ids]
    ELSE LET watch == rows[i] IN
         IF Contains(ids, watch.code)
         THEN IF bucket_raises(watch.qty)
              THEN [raised |-> TRUE, stocks |-> acc, offer_ids |-> ids]
              ELSE market_match_loop(rows, i + 1,
                       Append(acc, market_stock_record(watch.code, warehouse_id,
                                                       bucket(watch.qty), date)),
                       ListRemove(ids, watch.code), warehouse_id, date)
         ELSE market_match_loop(rows, i + 1, acc, ids, warehouse_id, date)

market_zero_fill(acc, ids, warehouse_id, date) ==
    acc \o [k \in 1..Len(ids) |-> market_stock_record(ids[k], warehouse_id, 0, date)]

market_create_stocks(rows, ids, warehouse_id, date) ==
    LET m == market_match_loop(rows, 1, << >>, ids, warehouse_id, date)
    IN  IF m.raised THEN [raised |-> TRUE, stocks |-> << >>, offer_ids |-> m.offer_ids]
        ELSE [raised |-> FALSE,
              stocks |-> market_zero_fill(m.stocks, m.offer_ids, warehouse_id, date),
              offer_ids |-> m.offer_ids]

(***************************************************************************)
(* create_prices.  seller keeps the digit string; market passes it through *)
(* int(), which raises ValueError on the empty string.                     *)
(***************************************************************************)
seller_price_record(watch) ==
    [auto_action_enabled |-> "UNKNOWN", currency_code |-> "RUB",
     offer_id |-> watch.code, old_price |-> << "0" >>,
     price |-> price_conversion(watch.price)]

RECURSIVE seller_create_prices(_, _)
seller_create_prices(rows, ids) ==
    IF Len(rows) = 0 THEN [raised |-> FALSE, prices |-> << >>]
    ELSE LET watch == rows[1]
             rest  == seller_create_prices(Tail(rows), ids)
         IN  IF Contains(ids, watch.code)
             THEN [raised |-> FALSE, prices |-> << seller_price_record(watch) >> \o rest.prices]
             ELSE rest

market_price_record(watch) ==
    [id |-> watch.code,
     price |-> [value |-> IntValue(price_conversion(watch.price)), currencyId |-> "RUR"]]

RECURSIVE market_price_loop(_, _, _, _)
market_price_loop(rows, i, acc, ids) ==
    IF i > Len(rows) THEN [raised |-> FALSE, prices |-> acc]
    ELSE LET watch == rows[i] IN
         IF Contains(ids, watch.code)
         THEN IF ~IntParses(price_conversion(watch.price))
              THEN [raised |-> TRUE, prices |-> << >>]
              ELSE market_price_loop(rows, i + 1, Append(acc, market_price_record(watch)), ids)
         ELSE market_price_loop(rows, i + 1, acc, ids)

market_create_prices(rows, ids) == market_price_loop(rows, 1, << >>, ids)

(***************************************************************************)
(* seller.divide: for i in range(0, len(lst), n): yield lst[i: i + n]      *)
(***************************************************************************)
Min(a, b) == IF a < b THEN a ELSE b

Range0_whole_only(stop, step) ==
    LET S == { i \in 0..(stop - 1) : i % step = 0 /\ i + step <= stop }
    IN  [k \in 1..Cardinality(S) |-> CHOOSE i \in S : Cardinality({ j \in S : j < i }) = k - 1]

\* range(0, stop, step) for step > 0, as the sequence of its values.
Range0(stop, step) ==
    LET S == { i \in 0..(stop - 1) : i % step = 0 }
    IN  [k \in 1..Cardinality(S) |-> CHOOSE i \in S : Cardinality({ j \in S : j < i }) = k - 1]

\* lst[i: j] for 0 <= i <= j.
Slice(lst, i, j) == SubSeq(lst, i + 1, Min(j, Len(lst)))

divide(lst, n) ==
    LET starts == Range0(Len(lst), n)
    IN  [k \in 1..Len(starts) |-> Slice(lst, starts[k], starts[k] + n)]

(***************************************************************************)
(* Inputs.  A remnants row has the three columns the code reads:           *)
(* "Код" (code), "Количество" (qty), "Цена" (price).                       *)
(***************************************************************************)
Codes == { "A", "B", "C" }

Markets == { "A", "B" }

\* The codes of the remnants rows: a row's code may or may not be an offer id.
RowCodes == { "A", "B" }

\* ">10", "1", "7", "" (empty cell)
QtyTexts ==
    << << ">", "1", "0" >>, << "1" >>, << "7" >>, << >> >>

\* "5'990.00 rub.", "12.3.4", ".50", "007"
PriceTexts ==
    << << "5", "'", "9", "9", "0", ".", "0", "0", " ", "r", "u", "b", "." >>,
       << "1", "2", ".", "3", ".", "4" >>,
       << ".", "5", "0" >>,
       << "0", "0", "7" >> >>

RowPool ==
    { [code |-> c, qty |-> QtyTexts[k], price |-> PriceTexts[k]] :
        c \in RowCodes, k \in 1..Len(QtyTexts) }

RemnantLists == SeqsUpTo(RowPool, MaxRows)

OfferIdLists == SeqsUpTo(Codes, MaxOffers)

WarehouseOf(c) == IF c = "FBS" THEN "WH_FBS" ELSE "WH_DBS"

EmptyToken == [kind |-> "empty", pos |-> 0]

AbsentToken == [kind |-> "absent", pos |-> 0]

Token(pos) == [kind |-> "token", pos |-> pos]

NoResponse == [items |-> << >>, total |-> 0, next |-> EmptyToken]

NoValue == [raised |-> FALSE, list |-> << >>]

NoServer == [mode |-> "none", page_size |-> 1, catalog |-> << >>]

(***************************************************************************)
(* SpecReconcile: the reconcilers called on bounded inputs.  The offer-id  *)
(* list is one list object: a call sees it as the calls before left it.    *)
(***************************************************************************)
MaxCalls == 2

InitReconcile ==
    /\ market \in Markets
    /\ pc = "reconcile"
    /\ campaign = "FBS"
    /\ clock = 0
    /\ server = NoServer
    /\ feed \in RemnantLists
    /\ watch_remnants = feed
    /\ page = EmptyToken
    /\ product_list = << >>
    /\ some_prod = NoResponse
    /\ offer_ids \in OfferIdLists
    /\ stocks = NoValue
    /\ prices = NoValue
    /\ chunks = << >>
    /\ net = << >>
    /\ coroutines = << >>
    /\ results = << >>
    /\ arg_lst = << >>
    /\ arg_n = 1

\* stocks = create_stocks(watch_remnants, offer_ids[, warehouse_id])
CallCreateStocks ==
    /\ pc = "reconcile"
    /\ Len(results) < MaxCalls
    /\ \E date \in clock..MaxClock :
         /\ (market = "A" => date = clock)
         /\ clock' = date
         /\ \E r \in { IF market = "A"
                     THEN seller_create_stocks(watch_remnants, offer_ids)
                     ELSE market_create_stocks(watch_remnants, offer_ids,
                                               WarehouseOf(campaign), date) } :
                /\ stocks' = [raised |-> r.raised, list |-> r.stocks]
                /\ offer_ids' = r.offer_ids
                /\ results' = Append(results,
                       [fn |-> "create_stocks", offer_ids |-> offer_ids,
                        raised |-> r.raised, list |-> r.stocks])
    /\ UNCHANGED << market, pc, campaign, server, feed, watch_remnants, page,
                    product_list, some_prod, prices, chunks, net, coroutines, arg_lst, arg_n >>

\* prices = create_prices(watch_remnants, offer_ids)
CallCreatePrices ==
    /\ pc = "reconcile"
    /\ Len(results) < MaxCalls
    /\ \E r \in { IF market = "A"
                THEN seller_create_prices(watch_remnants, offer_ids)
                ELSE market_create_prices(watch_remnants, offer_ids) } :
           /\ prices' = [raised |-> r.raised, list |-> r.prices]
           /\ results' = Append(results,
                  [fn |-> "create_prices", offer_ids |-> offer_ids,
                   raised |-> r.raised, list |-> r.prices])
    /\ UNCHANGED << market, pc, campaign, clock, server, feed, watch_remnants, page,
                    product_list, some_prod, offer_ids, stocks, chunks, net,
                    coroutines, arg_lst, arg_n >>

NextReconcile == CallCreateStocks \/ CallCreatePrices

SpecReconcile == InitReconcile /\ [][NextReconcile]_vars

(***************************************************************************)
(* Reading the records of either marketplace.                              *)
(***************************************************************************)
StockId(r) == IF market = "A" THEN r.offer_id ELSE r.sku

StockCount(r) == IF market = "A" THEN r.stock ELSE r.items[1].count

PriceId(r) == IF market = "A" THEN r.offer_id ELSE r.id

Distinct(lst) == \A i, j \in 1..Len(lst) : lst[i] = lst[j] => i = j

SetOf(lst) == { lst[i] : i \in 1..Len(lst) }

StockCalls == { i \in 1..Len(results) : results[i].fn = "create_stocks" }

PriceCalls == { i \in 1..Len(results) : results[i].fn = "create_prices" }

\* The statement's own reading of a quantity cell.
Sentinel(q) == q = << ">", "1", "0" >> \/ q = << "1" >>

Parseable(q) == Sentinel(q) \/ IntParses(q)

ExpectedCount(q) ==
    CASE q = << ">", "1", "0" >> -> 100
      [] q = << "1" >> -> 0
      [] q = << "7" >> -> 7
      [] OTHER -> IntValue(q)

FirstRowOf(rows, c) == rows[CHOOSE i \in 1..Len(rows) :
                               rows[i].code = c /\ \A j \in 1..(i - 1) : rows[j].code # c]

HasRow(rows, c) == \E i \in 1..Len(rows) : rows[i].code = c

\* C1: create_stocks on rows with parseable quantities and pairwise distinct
\* offer ids returns exactly one StockRecord per offer id and none for any
\* other code; an id with a matching row carries the bucketed count of its
\* first matching row, an id without one carries 0.
C1_OneStockRecordPerOfferId ==
    \A n \in StockCalls :
        LET e == results[n] IN
        ( /\ Distinct(e.offer_ids)
          /\ \A i \in 1..Len(watch_remnants) : Parseable(watch_remnants[i].qty) )
        => /\ ~e.raised
           /\ Len(e.list) = Len(e.offer_ids)
           /\ \A k \in 1..Len(e.list) : Contains(e.offer_ids, StockId(e.list[k]))
           /\ \A c \in SetOf(e.offer_ids) :
                /\ Cardinality({ k \in 1..Len(e.list) : StockId(e.list[k]) = c }) = 1
                /\ \A k \in 1..Len(e.list) :
                     StockId(e.list[k]) = c =>
                        StockCount(e.list[k]) =
                            IF HasRow(watch_remnants, c)
                            THEN ExpectedCount(FirstRowOf(watch_remnants, c).qty)
                            ELSE 0

\* Two rows for the same code with different counts, the id matched once, and
\* another id zero-filled.
C1_Witness ==
    \E n \in StockCalls :
        LET e == results[n] IN
        /\ e.offer_ids = << "C", "A" >>
        /\ Len(watch_remnants) = 2
        /\ watch_remnants[1].code = "A" /\ watch_remnants[1].qty = << ">", "1", "0" >>
        /\ watch_remnants[2].code = "A" /\ watch_remnants[2].qty = << "7" >>
        /\ Len(e.list) = 2
        /\ StockId(e.list[1]) = "A" /\ StockCount(e.list[1]) = 100
        /\ StockId(e.list[2]) = "C" /\ StockCount(e.list[2]) = 0

\* Row i is matched when the rows before it have not used up the occurrences
\* of its code in the offer-id list.
MatchedAt(rows, ids, i) ==
    Cardinality({ j \in 1..(i - 1) : rows[j].code = rows[i].code }) < Count(ids, rows[i].code)

MatchedRows(rows, ids) == { i \in 1..Len(rows) : MatchedAt(rows, ids, i) }

\* C9: over the quantities of matched rows the bucketing gives 100 for ">10",
\* 0 for "1", the integer for any other integer literal ("7" gives 7), and
\* fails with a parse error otherwise, in which case create_stocks returns
\* no record list.
C9_CountBucketing ==
    \A n \in StockCalls :
        LET e == results[n]
            M == MatchedRows(watch_remnants, e.offer_ids)
        IN  /\ e.raised <=> \E i \in M : ~Parseable(watch_remnants[i].qty)
            /\ e.raised => e.list = << >>
            /\ ~e.raised =>
                 \A i \in M :
                    LET k == 1 + Cardinality({ j \in M : j < i })
                    IN  /\ k <= Len(e.list)
                        /\ StockId(e.list[k]) = watch_remnants[i].code
                        /\ StockCount(e.list[k]) = ExpectedCount(watch_remnants[i].qty)

\* "1" bucketed to 0 and "7" kept as 7 in one returned list.
C9_Witness ==
    \E n \in StockCalls :
        LET e == results[n] IN
        /\ Len(watch_remnants) = 2
        /\ watch_remnants[1].qty = << "1" >> /\ watch_remnants[2].qty = << "7" >>
        /\ ~e.raised
        /\ Len(e.list) = 2
        /\ StockCount(e.list[1]) = 0
        /\ StockCount(e.list[2]) = 7

\* The statement's own reading of a price cell: scan up to the first ".",
\* keeping the digits.
RECURSIVE NormalizedDigits(_)
NormalizedDigits(p) ==
    IF p = << >> \/ Head(p) = "." THEN << >>
    ELSE (IF Head(p) \in { DigitChars[d] : d \in 1..10 } THEN << Head(p) >> ELSE << >>)
         \o NormalizedDigits(Tail(p))

MemberRows(rows, ids) ==
    LET IsMember(r) == \E i \in 1..Len(ids) : ids[i] = r.code
    IN  SelectSeq(rows, IsMember)

RECURSIVE ToDecimal(_)
ToDecimal(n) ==
    IF n < 10 THEN << DigitChars[n + 1] >>
    ELSE ToDecimal(n \div 10) \o << DigitChars[(n % 10) + 1] >>

PriceText(r) == IF market = "A" THEN r.price ELSE ToDecimal(r.price.value)

\* C6 as stated: in both marketplaces create_prices returns, in remnants
\* order, one record per member row, priced with the row's digit string.
C6_Original ==
    \A n \in PriceCalls :
        LET e == results[n]
            mem == MemberRows(watch_remnants, e.offer_ids)
        IN  /\ ~e.raised
            /\ Len(e.list) = Len(mem)
            /\ \A k \in 1..Len(mem) :
                 /\ PriceId(e.list[k]) = mem[k].code
                 /\ PriceText(e.list[k]) = NormalizedDigits(mem[k].price)

\* C6 (amended): create_prices returns, in remnants order, one record per
\* member row and none for other rows or for ids without a row.  In
\* Marketplace A the price is the row's digit string; in Marketplace B it is
\* the integer that digit string denotes, and the call raises, returning no
\* records, when a member row's digit string is empty.
C6_PriceRecords ==
    \A n \in PriceCalls :
        LET e == results[n]
            mem == MemberRows(watch_remnants, e.offer_ids)
        IN  /\ e.raised <=>
                 (market = "B" /\ \E k \in 1..Len(mem) : NormalizedDigits(mem[k].price) = << >>)
            /\ ~e.raised =>
                 /\ Len(e.list) = Len(mem)
                 /\ \A k \in 1..Len(mem) :
                      /\ PriceId(e.list[k]) = mem[k].code
                      /\ IF market = "A"
                         THEN e.list[k].price = NormalizedDigits(mem[k].price)
                         ELSE e.list[k].price.value = DigitsValue(NormalizedDigits(mem[k].price))

\* Marketplace B: a row outside the offer ids is skipped and "007" is sent as 7.
C6_Witness ==
    \E n \in PriceCalls :
        LET e == results[n] IN
        /\ market = "B"
        /\ e.offer_ids = << "C", "B" >>
        /\ Len(watch_remnants) = 2
        /\ watch_remnants[1].code = "A"
        /\ watch_remnants[2].code = "B"
        /\ watch_remnants[2].price = << "0", "0", "7" >>
        /\ ~e.raised
        /\ Len(e.list) = 1
        /\ e.list[1].id = "B"
        /\ e.list[1].price.value = 7

\* C8 as stated: a second run of a reconciler with the same remnants list and
\* the same offer-id list object yields the same set of records as the first.
C8_SecondRunSame ==
    \A i, j \in 1..Len(results) :
        (i < j /\ results[i].fn = results[j].fn) =>
            /\ results[i].raised = results[j].raised
            /\ SetOf(results[i].list) = SetOf(results[j].list)

\* C11 as stated: for every remnants list and every offer-id list, a list
\* that names the same offer id more than once included, create_stocks emits
\* no two StockRecords with the same offer id, so no id receives both a
\* record with its remnants count and a zero-fill record.
C11_NoTwoRecordsSameId ==
    \A n \in StockCalls :
        LET e == results[n] IN
        \A j, k \in 1..Len(e.list) :
            StockId(e.list[j]) = StockId(e.list[k]) => j = k

(***************************************************************************)
(* SpecDivide: divide(lst, n) called on bounded lists with n > 0.          *)
(***************************************************************************)
MaxLen == 5

Elems == { "x", "y" }

InitDivide ==
    /\ market = "A"
    /\ pc = "divide"
    /\ campaign = "OZON"
    /\ clock = 0
    /\ server = NoServer
    /\ feed = << >>
    /\ watch_remnants = << >>
    /\ page = EmptyToken
    /\ product_list = << >>
    /\ some_prod = NoResponse
    /\ offer_ids = << >>
    /\ stocks = NoValue
    /\ prices = NoValue
    /\ chunks = << >>
    /\ net = << >>
    /\ coroutines = << >>
    /\ results = << >>
    /\ arg_lst \in SeqsUpTo(Elems, MaxLen)
    /\ arg_n \in 1..(MaxLen + 1)

\* chunks = list(divide(lst, n))
CallDivide ==
    /\ pc = "divide"
    /\ chunks' = divide(arg_lst, arg_n)
    /\ pc' = "divided"
    /\ UNCHANGED << market, campaign, clock, server, feed, watch_remnants, page,
                    product_list, some_prod, offer_ids, stocks, prices, net,
                    coroutines, results, arg_lst, arg_n >>

NextDivide == CallDivide

SpecDivide == InitDivide /\ [][NextDivide]_vars

RECURSIVE Flatten(_)
Flatten(ss) == IF Len(ss) = 0 THEN << >> ELSE Head(ss) \o Flatten(Tail(ss))

\* c = ceil(len / k) for k > 0
IsCeilDiv(c, len, k) == c >= 0 /\ c * k >= len /\ (c - 1) * k < len

\* C7: for every sequence and every n > 0 the chunks concatenated in order
\* equal the sequence, every chunk but the last has length n, the last has
\* length in 1..n, and there are ceil(len/n) chunks (none for an empty one).
C7_DivideChunks ==
    pc = "divided" =>
        /\ Flatten(chunks) = arg_lst
        /\ \A k \in 1..(Len(chunks) - 1) : Len(chunks[k]) = arg_n
        /\ Len(chunks) > 0 =>
              (Len(chunks[Len(chunks)]) >= 1 /\ Len(chunks[Len(chunks)]) <= arg_n)
        /\ IsCeilDiv(Len(chunks), Len(arg_lst), arg_n)
        /\ (arg_lst = << >> => chunks = << >>)

\* Five elements in chunks of two: two full chunks and a last chunk of one.
C7_Witness ==
    /\ pc = "divided"
    /\ Len(arg_lst) = 5
    /\ arg_n = 2
    /\ Len(chunks) = 3
    /\ chunks[3] = << arg_lst[5] >>

(***************************************************************************)
(* The marketplace's "list offers" endpoint.  A consistent server serves   *)
(* its catalog in pages of page_size items: Marketplace A reports the      *)
(* catalog size as total, Marketplace B gives a next-page token until the  *)
(* last page, where the token is empty or absent.  An arbitrary server     *)
(* answers anything.                                                       *)
(***************************************************************************)
MaxPageSize == 1
MaxTotal == 2
MaxPages == 3

Item(c) == IF market = "A" THEN [offer_id |-> c] ELSE [offer |-> [shopSku |-> c]]

ConsistentResponses(cursor) ==
    LET cat   == server.catalog[campaign]
        from  == cursor.pos
        upto  == Min(from + server.page_size, Len(cat))
        items == [k \in 1..(upto - from) |-> Item(cat[from + k])]
    IN  { [items |-> items, total |-> Len(cat), next |-> t] :
            t \in IF market = "A" \/ upto < Len(cat)
                  THEN { Token(upto) }
                  ELSE { EmptyToken, AbsentToken } }

ArbitraryResponses ==
    { [items |-> its, total |-> t, next |-> tok] :
        its \in SeqsUpTo({ Item("A") }, server.page_size),
        t \in (IF market = "A" THEN 0..MaxTotal ELSE { 0 }),
        tok \in (IF market = "A" THEN { Token(1) }
                 ELSE { EmptyToken, AbsentToken, Token(1) }) }

Responses(cursor) ==
    IF server.mode = "consistent" THEN ConsistentResponses(cursor) ELSE ArbitraryResponses

PagesFetched ==
    Cardinality({ i \in 1..Len(net) : net[i].op = "get_product_list"
                                      /\ net[i].campaign = campaign })

(***************************************************************************)
(* get_offer_ids: one iteration of the while True loop per step.           *)
(***************************************************************************)
seller_stop_at_least(total, count) == count >= total

\* seller.py 66: if total == len(product_list): break
seller_stop(total, count) == total = count

\* market.py 122: if not page: break
market_stop(token) == token.kind \in { "empty", "absent" }

OfferIdOf(product) == IF market = "A" THEN product.offer_id ELSE product.offer.shopSku

\* One network call: the request's payload, the reply's items, and the
\* exception it raised ("none" when it returned).
Call(op, payload, reply, error) ==
    [op |-> op, campaign |-> campaign, payload |-> payload, reply |-> reply,
     error |-> error]

FetchPage ==
    /\ pc = "get_offer_ids"
    /\ server.mode = "arbitrary" => PagesFetched < MaxPages
    /\ \E resp \in Responses(page) :
         LET pl   == product_list \o resp.items
             stop == IF market = "A" THEN seller_stop(resp.total, Len(pl))
                     ELSE market_stop(resp.next)
         IN  /\ net' = Append(net, Call("get_product_list", << >>, resp.items, "none"))
             /\ product_list' = pl
             /\ some_prod' = resp
             /\ page' = resp.next
             /\ IF stop
                THEN /\ offer_ids' = [k \in 1..Len(pl) |-> OfferIdOf(pl[k])]
                     /\ pc' = "got_offer_ids"
                ELSE UNCHANGED << offer_ids, pc >>
    /\ UNCHANGED << market, campaign, clock, server, feed, watch_remnants, stocks,
                    prices, chunks, coroutines, results, arg_lst, arg_n >>

(***************************************************************************)
(* SpecCatalog: get_offer_ids of either marketplace against a consistent   *)
(* or an arbitrary server.  The loop is a plain sequential loop, so a      *)
(* pending iteration is eventually run.                                    *)
(***************************************************************************)
CampaignsOf(m) == IF m = "A" THEN { "OZON" } ELSE { "FBS", "DBS" }

InitCatalog ==
    /\ market \in Markets
    /\ pc = "get_offer_ids"
    /\ campaign = (IF market = "A" THEN "OZON" ELSE "FBS")
    /\ clock = 0
    /\ \E mode \in { "consistent", "arbitrary" }, size \in 1..MaxPageSize,
          cat \in OfferIdLists :
         /\ mode = "arbitrary" => cat = << >>
         /\ server = [mode |-> mode, page_size |-> size,
                      catalog |-> [c \in { campaign } |-> cat]]
    /\ feed = << >>
    /\ watch_remnants = << >>
    /\ page = EmptyToken
    /\ product_list = << >>
    /\ some_prod = NoResponse
    /\ offer_ids = << >>
    /\ stocks = NoValue
    /\ prices = NoValue
    /\ chunks = << >>
    /\ net = << >>
    /\ coroutines = << >>
    /\ results = << >>
    /\ arg_lst = << >>
    /\ arg_n = 1

NextCatalog == FetchPage

SpecCatalog == InitCatalog /\ [][NextCatalog]_vars /\ WF_vars(FetchPage)

PageReplies ==
    LET IsPage(c) == c.op = "get_product_list" /\ c.error = "none"
        pages     == SelectSeq(net, IsPage)
    IN  [k \in 1..Len(pages) |-> pages[k].reply]

C10_StopRule ==
    /\ product_list = Flatten(PageReplies)
    /\ pc = "got_offer_ids" =>
         /\ Len(offer_ids) = Len(product_list)
         /\ \A k \in 1..Len(offer_ids) : Item(offer_ids[k]) = product_list[k]
    /\ (market = "A" /\ Len(net) > 0) =>
         (pc = "got_offer_ids" <=> some_prod.total = Len(product_list))
    /\ (market = "B" /\ Len(net) > 0) =>
         (pc = "got_offer_ids" <=> some_prod.next.kind # "token")

\* C10: against a consistent server the paging loop eventually stops; the
\* value returned is the offer ids of all items of all fetched pages in fetch
\* order; Marketplace B stops exactly at the first page whose next-page token
\* is empty or absent, Marketplace A exactly at the first page after which
\* the accumulated count equals the page's total (so it goes on when the
\* count is above the total or the page is empty).
C10_CatalogReader ==
    /\ [] C10_StopRule
    /\ (server.mode = "consistent") ~> (pc = "got_offer_ids")

\* Marketplace A goes on after an empty page that leaves the count above the
\* reported total.
C10_Witness ==
    /\ market = "A"
    /\ pc = "get_offer_ids"
    /\ Len(net) >= 2
    /\ some_prod.items = << >>
    /\ Len(product_list) > some_prod.total

(***************************************************************************)
(* The batch limits of the upload loops.                                   *)
(***************************************************************************)
SellerStockBatch == 100
SellerPriceBatch == 900
MarketStockBatch == 2000
MarketPriceBatch == 500

BatchLimit(m, op) ==
    IF m = "A" THEN (IF op = "update_stocks" THEN SellerStockBatch ELSE SellerPriceBatch)
    ELSE (IF op = "update_stocks" THEN MarketStockBatch ELSE MarketPriceBatch)

NextChunksSkipping(cs) == IF Len(cs) > 1 THEN Tail(Tail(cs)) ELSE << >>

\* for some in list(divide(...)): the loop moves on to the next chunk.
NextChunks(cs) == Tail(cs)

\* update_stocks(some_stock, ...) / update_price(some_price, ...) returning.
UpdateCall ==
    /\ pc \in { "update_stocks", "update_price" }
    /\ chunks # << >>
    /\ net' = Append(net, Call(pc, Head(chunks), << >>, "none"))
    /\ chunks' = NextChunks(chunks)
    /\ UNCHANGED << market, pc, campaign, clock, server, feed, watch_remnants, page,
                    product_list, some_prod, offer_ids, stocks, prices, coroutines,
                    results, arg_lst, arg_n >>

(***************************************************************************)
(* SpecUpload: the upload loops of seller.main (stocks 100, prices 900),   *)
(* market.main (stocks 2000) and market.upload_prices (prices 500) on      *)
(* record lists of the given lengths, no call failing.  A record is        *)
(* represented by its position in the list.                                *)
(***************************************************************************)
UploadLens == { 0, 1, 99, 100, 101, 500, 501, 900, 901, 1999, 2000, 2001, 2150 }

InitUpload ==
    /\ market \in Markets
    /\ pc \in { "start_update_stocks", "start_update_price" }
    /\ campaign = (IF market = "A" THEN "OZON" ELSE "FBS")
    /\ clock = 0
    /\ server = NoServer
    /\ feed = << >>
    /\ watch_remnants = << >>
    /\ page = EmptyToken
    /\ product_list = << >>
    /\ some_prod = NoResponse
    /\ offer_ids = << >>
    /\ stocks = NoValue
    /\ prices = NoValue
    /\ chunks = << >>
    /\ net = << >>
    /\ coroutines = << >>
    /\ results = << >>
    /\ \E len \in UploadLens : arg_lst = [i \in 1..len |-> i]
    /\ arg_n = BatchLimit(market, IF pc = "start_update_stocks"
                                  THEN "update_stocks" ELSE "update_price")

\* list(divide(records, limit)), evaluated once before the loop body runs.
StartUpload ==
    /\ pc \in { "start_update_stocks", "start_update_price" }
    /\ chunks' = divide(arg_lst, arg_n)
    /\ pc' = (IF pc = "start_update_stocks" THEN "update_stocks" ELSE "update_price")
    /\ UNCHANGED << market, campaign, clock, server, feed, watch_remnants, page,
                    product_list, some_prod, offer_ids, stocks, prices, net,
                    coroutines, results, arg_lst, arg_n >>

NextUpload == StartUpload \/ UpdateCall

SpecUpload == InitUpload /\ [][NextUpload]_vars

Payloads == [k \in 1..Len(net) |-> net[k].payload]

\* C4: with no call failing the loop issues ceil(L/n) update calls, one per
\* chunk and in chunk order, each carrying at most n records, and the
\* payloads concatenated in issue order equal the record list; n is 100 for
\* Marketplace A stocks, 2000 for Marketplace B stocks and 500 for
\* Marketplace B prices; 2150 stock records give 2 calls for B and 22 for A.
C4_BatchUploader ==
    pc \in { "update_stocks", "update_price" } =>
        /\ (market = "A" /\ pc = "update_stocks") => arg_n = 100
        /\ (market = "B" /\ pc = "update_stocks") => arg_n = 2000
        /\ (market = "B" /\ pc = "update_price") => arg_n = 500
        /\ \A k \in 1..Len(net) :
             /\ net[k].op = pc
             /\ Len(net[k].payload) >= 1
             /\ Len(net[k].payload) <= arg_n
        /\ Flatten(Payloads) \o Flatten(chunks) = arg_lst
        /\ IsCeilDiv(Len(net) + Len(chunks), Len(arg_lst), arg_n)
        /\ (chunks = << >> /\ Len(arg_lst) = 2150 /\ pc = "update_stocks") =>
              Len(net) = (IF market = "A" THEN 22 ELSE 2)

\* All of 2150 stock records sent to Marketplace A: 22 calls, the last of 50.
C4_Witness ==
    /\ market = "A"
    /\ pc = "update_stocks"
    /\ Len(arg_lst) = 2150
    /\ chunks = << >>
    /\ Len(net) = 22
    /\ Len(net[22].payload) = 50
    /\ Flatten(Payloads) = arg_lst

(***************************************************************************)
(* Spec: one run of a driver, seller.main (A) or market.main (B), against  *)
(* a consistent server; any network call may raise.                        *)
(***************************************************************************)
MaxFeedRows == 1

CatalogCodes == { "A", "C" }

\* Rows ">10" / "5'990.00 rub." and "" / "007" for each code.
DriverRowPool == { r \in RowPool : r.qty \in { QtyTexts[1], QtyTexts[4] } }

ErrorKinds == { "ReadTimeout", "ConnectionError", "HTTPError" }

Init ==
    /\ market \in Markets
    /\ pc = (IF market = "A" THEN "get_offer_ids" ELSE "start")
    /\ campaign = (IF market = "A" THEN "OZON" ELSE "FBS")
    /\ clock = 0
    /\ \E size \in 1..MaxPageSize :
         \E cat \in [CampaignsOf(market) -> SeqsUpTo(CatalogCodes, MaxOffers)] :
            server = [mode |-> "consistent", page_size |-> size, catalog |-> cat]
    /\ feed \in SeqsUpTo(DriverRowPool, MaxFeedRows)
    /\ watch_remnants = << >>
    /\ page = EmptyToken
    /\ product_list = << >>
    /\ some_prod = NoResponse
    /\ offer_ids = << >>
    /\ stocks = NoValue
    /\ prices = NoValue
    /\ chunks = << >>
    /\ net = << >>
    /\ coroutines = << >>
    /\ results = << >>
    /\ arg_lst = << >>
    /\ arg_n = 1

\* Where download_stock() is called: seller.main calls it after
\* get_offer_ids, inside the try; market.main calls it first, before the try.
DownloadAt == IF market = "A" THEN "got_offer_ids" ELSE "start"

\* Where create_stocks is called.
CreateStocksAt == IF market = "A" THEN "downloaded" ELSE "got_offer_ids"

\* watch_remnants = download_stock()
DownloadStock ==
    /\ pc = DownloadAt
    /\ net' = Append(net, Call("download_stock", << >>, feed, "none"))
    /\ watch_remnants' = feed
    /\ pc' = (IF market = "A" THEN "downloaded" ELSE "get_offer_ids")
    /\ UNCHANGED << market, campaign, clock, server, feed, page, product_list,
                    some_prod, offer_ids, stocks, prices, chunks, coroutines,
                    results, arg_lst, arg_n >>

\* stocks = create_stocks(...) and list(divide(stocks, limit)); a ValueError
\* from int() is caught by "except Exception" and ends the run.
CreateStocks ==
    /\ pc = CreateStocksAt
    /\ \E date \in clock..MaxClock :
         /\ (market = "A" => date = clock)
         /\ clock' = date
         /\ LET r == IF market = "A"
                     THEN seller_create_stocks(watch_remnants, offer_ids)
                     ELSE market_create_stocks(watch_remnants, offer_ids,
                                               WarehouseOf(campaign), date)
            IN  /\ offer_ids' = r.offer_ids
                /\ IF r.raised
                   THEN /\ pc' = "caught"
                        /\ UNCHANGED << stocks, chunks >>
                   ELSE /\ stocks' = [raised |-> FALSE, list |-> r.stocks]
                        /\ chunks' = divide(r.stocks, BatchLimit(market, "update_stocks"))
                        /\ pc' = "update_stocks"
    /\ UNCHANGED << market, campaign, server, feed, watch_remnants, page,
                    product_list, some_prod, prices, net, coroutines, results,
                    arg_lst, arg_n >>

\* seller.main 325-326: prices = create_prices(watch_remnants, offer_ids) on
\* the list create_stocks has worked on, and list(divide(prices, 900)).
CreatePrices ==
    /\ market = "A"
    /\ pc = "update_stocks"
    /\ chunks = << >>
    /\ LET r == seller_create_prices(watch_remnants, offer_ids)
       IN  /\ prices' = [raised |-> r.raised, list |-> r.prices]
           /\ chunks' = divide(r.prices, BatchLimit(market, "update_price"))
    /\ pc' = "update_price"
    /\ UNCHANGED << market, campaign, clock, server, feed, watch_remnants, page,
                    product_list, some_prod, offer_ids, stocks, net, coroutines,
                    results, arg_lst, arg_n >>

\* market.main 299, 308: upload_prices(...) is an async def called without
\* await and without an event loop: the call only creates a coroutine object,
\* whose body never runs.  After FBS the DBS leg starts; after DBS main ends.
CallUploadPrices ==
    /\ market = "B"
    /\ pc = "update_stocks"
    /\ chunks = << >>
    /\ coroutines' = Append(coroutines, [fn |-> "upload_prices", campaign |-> campaign])
    /\ IF campaign = "FBS"
       THEN /\ campaign' = "DBS"
            /\ pc' = "get_offer_ids"
            /\ page' = EmptyToken
            /\ product_list' = << >>
       ELSE /\ pc' = "done"
            /\ UNCHANGED << campaign, page, product_list >>
    /\ UNCHANGED << market, clock, server, feed, watch_remnants, some_prod,
                    offer_ids, stocks, prices, chunks, net, results, arg_lst, arg_n >>

\* seller.main: the price loop is over and main returns.
Return ==
    /\ market = "A"
    /\ pc = "update_price"
    /\ chunks = << >>
    /\ pc' = "done"
    /\ UNCHANGED << market, campaign, clock, server, feed, watch_remnants, page,
                    product_list, some_prod, offer_ids, stocks, prices, chunks,
                    net, coroutines, results, arg_lst, arg_n >>

\* The network call the driver is about to make, "none" if it is not at one.
PendingCall ==
    IF pc = "get_offer_ids" THEN "get_product_list"
    ELSE IF pc = DownloadAt THEN "download_stock"
    ELSE IF pc \in { "update_stocks", "update_price" } /\ chunks # << >> THEN pc
    ELSE "none"

\* Whether the statement at pc is inside main's try block.
InTry == ~(market = "B" /\ pc = "start")

HandlerRetrying(guarded) == pc

\* The three except clauses of main print and fall through to the end of
\* main; an exception raised outside the try leaves main.
Handler(guarded) == IF guarded THEN "caught" ELSE "escaped"

\* A network call raises (requests' ReadTimeout or ConnectionError, or the
\* HTTPError of raise_for_status).
NetworkFailure ==
    /\ PendingCall # "none"
    /\ \E kind \in ErrorKinds :
         net' = Append(net, Call(PendingCall,
                                 IF PendingCall \in { "update_stocks", "update_price" }
                                 THEN Head(chunks) ELSE << >>,
                                 << >>, kind))
    /\ pc' = Handler(InTry)
    /\ UNCHANGED << market, campaign, clock, server, feed, watch_remnants, page,
                    product_list, some_prod, offer_ids, stocks, prices, chunks,
                    coroutines, results, arg_lst, arg_n >>

Next ==
    \/ FetchPage
    \/ DownloadStock
    \/ CreateStocks
    \/ UpdateCall
    \/ CreatePrices
    \/ CallUploadPrices
    \/ Return
    \/ NetworkFailure

Spec == Init /\ [][Next]_vars

PriceRecordsSent ==
    LET IsPriceUpdate(c) == c.op = "update_price" /\ c.error = "none"
        sent == SelectSeq(net, IsPriceUpdate)
    IN  Flatten([k \in 1..Len(sent) |-> sent[k].payload])

\* C2 as stated: in a seller.main run in which no call fails, every offer id
\* returned by the catalog reader that has a matching remnants row appears
\* in exactly one PriceRecord among the payloads of the price-update calls.
C2_MatchedOfferPricedOnce ==
    (market = "A" /\ pc = "done") =>
        \A k \in 1..Len(product_list) :
            LET c == OfferIdOf(product_list[k]) IN
            HasRow(watch_remnants, c) =>
                Cardinality({ j \in 1..Len(PriceRecordsSent) :
                                PriceRecordsSent[j].offer_id = c }) = 1

\* C3 as stated: in a market.main run in which no call fails, a campaign with
\* at least one known offer that has a remnants row gets at least one
\* price-update call, issued after that campaign's stock updates.
C3_CampaignPricesSent ==
    (market = "B" /\ pc = "done") =>
        \A camp \in CampaignsOf("B") :
            (\E k \in 1..Len(server.catalog[camp]) :
                HasRow(watch_remnants, server.catalog[camp][k]))
            => \E i \in 1..Len(net) :
                  /\ net[i].op = "update_price"
                  /\ net[i].campaign = camp
                  /\ \A j \in 1..Len(net) :
                       (net[j].op = "update_stocks" /\ net[j].campaign = camp) => j < i

\* Whether call i was made inside main's try block.
Guarded(i) == ~(market = "B" /\ net[i].op = "download_stock")

C5_FailedCallIsLast ==
    \A i \in 1..Len(net) :
        net[i].error # "none" =>
            /\ i = Len(net)
            /\ Guarded(i) => pc = "caught"

====
